---- MODULE Spec2Model ----
(***************************************************************************)
(* A model of Lizard, a small HTTP routing layer on Bun: the route table   *)
(* and its first-match lookup (utils.ts), the Response Builder             *)
(* (response.ts) and the application context with its middleware dispatch  *)
(* pipeline (lizard.ts).                                                   *)
(*                                                                         *)
(* Source files.  utils.ts is stored as lines 75-145 of                    *)
(* src/response.test.ts, lizard.ts (the current version) as lines 1-287 of *)
(* src/unnamed/part_002, response.ts as src/response.ts.                   *)
(*                                                                         *)
(* Strings that the code takes apart (route patterns, URLs, query strings) *)
(* are sequences of one-character strings, so that splitting, matching and *)
(* decoding are computed and not assumed.  "http://" and "https://" stand  *)
(* for the scheme prefix as one symbol.  Short names stand for the usual   *)
(* ones: /h/:i is /home/:id, /h/p is /home/profile, /u is /user.           *)
(***************************************************************************)
EXTENDS Integers, Sequences, FiniteSets, TLC

(***************************************************************************)
(* String helpers                                                          *)
(***************************************************************************)
Take(s, n) == SubSeq(s, 1, n)

Drop(s, n) == SubSeq(s, n + 1, Len(s))

\* String.prototype.indexOf for one character, 1-based; 0 when absent
IndexOf(s, c) ==
    IF \E i \in 1..Len(s) : s[i] = c
    THEN CHOOSE i \in 1..Len(s) : s[i] = c /\ \A j \in 1..(i - 1) : s[j] # c
    ELSE 0

\* String.prototype.split(d) for a one-character separator
RECURSIVE Split(_, _)
Split(s, d) ==
    LET i == IndexOf(s, d)
    IN  IF i = 0 THEN <<s>> ELSE <<Take(s, i - 1)>> \o Split(Drop(s, i), d)

\* the letters of the model's alphabet that have an upper and a lower case
LowerChar(c) ==
    CASE c = "H" -> "h"
      [] c = "P" -> "p"
      [] c = "U" -> "u"
      [] OTHER -> c

LowerStr(s) == [i \in 1..Len(s) |-> LowerChar(s[i])]

IdStart == {"h", "p", "u", "i", "n", "k", "v", "x", "H", "P", "U", "_", "$"}

IdContinue == IdStart \cup {"0", "1", "2", "3"}

\* characters path-to-regexp's lexer gives a meaning of their own
ReservedChars == {"(", ")", "[", "]", "{", "}", "+", "?", "!", "*", "\\"}

(***************************************************************************)
(* pathToRegex: path-to-regexp's pathToRegexp(path) with its default       *)
(* options (delimiter "/", end, trailing, not sensitive).  The lexer reads  *)
(* ":" followed by an identifier as a parameter and fails with "Missing    *)
(* parameter name" when no identifier follows; other characters are text.  *)
(* The regular expression is ^(?:text|([^\/]+))...(?:\/$)?$ with flag i.   *)
(***************************************************************************)
\* the length of the identifier that starts at position i
RECURSIVE NameLen(_, _)
NameLen(path, i) ==
    IF i > Len(path) \/ path[i] \notin IdContinue THEN 0
    ELSE 1 + NameLen(path, i + 1)

\* the length of the run of plain text that starts at position i
RECURSIVE TextLen(_, _)
TextLen(path, i) ==
    IF i > Len(path) \/ path[i] = ":" \/ path[i] \in ReservedChars THEN 0
    ELSE 1 + TextLen(path, i + 1)

RECURSIVE Lex(_, _)
Lex(path, i) ==
    IF i > Len(path) THEN [ok |-> TRUE, tokens |-> <<>>]
    ELSE IF path[i] = ":"
    THEN LET n == IF i + 1 <= Len(path) /\ path[i + 1] \in IdStart
                  THEN NameLen(path, i + 1) ELSE 0
         IN  IF n = 0 THEN [ok |-> FALSE, tokens |-> <<>>]
             ELSE LET rest == Lex(path, i + 1 + n)
                  IN  [ok |-> rest.ok,
                       tokens |-> <<[type |-> "param",
                                     value |-> SubSeq(path, i + 1, i + n)]>>
                                  \o rest.tokens]
    ELSE IF path[i] \in ReservedChars THEN [ok |-> FALSE, tokens |-> <<>>]
    ELSE LET n == TextLen(path, i)
             rest == Lex(path, i + n)
         IN  [ok |-> rest.ok,
              tokens |-> <<[type |-> "text", value |-> SubSeq(path, i, i + n - 1)]>>
                         \o rest.tokens]

\* the names of the parameter tokens, in order
RECURSIVE KeysOf(_)
KeysOf(tokens) ==
    IF tokens = <<>> THEN <<>>
    ELSE (IF Head(tokens).type = "param" THEN <<Head(tokens).value>> ELSE <<>>)
         \o KeysOf(Tail(tokens))

\* the compiled pattern {regexp, keys}; ok = FALSE when pathToRegexp throws
PathToRegex(path) ==
    LET lexed == Lex(path, 1)
    IN  [ok |-> lexed.ok,
         tokens |-> IF lexed.ok THEN lexed.tokens ELSE <<>>,
         keys |-> IF lexed.ok THEN KeysOf(lexed.tokens) ELSE <<>>]

NoExec == [matched |-> FALSE, caps |-> <<>>]

\* the length of the longest prefix of s without "/"
RECURSIVE RunLen(_)
RunLen(s) == IF s = <<>> \/ Head(s) = "/" THEN 0 ELSE 1 + RunLen(Tail(s))

\* regexp.exec(s): the capture groups of the match of the whole of s, if any
RECURSIVE RegexExec(_, _)
RegexExec(tokens, s) ==
    IF tokens = <<>>
    THEN [matched |-> s = <<>> \/ s = <<"/">>, caps |-> <<>>]
    ELSE LET t == Head(tokens)
         IN  IF t.type = "text"
             THEN IF Len(s) >= Len(t.value)
                     /\ LowerStr(Take(s, Len(t.value))) = LowerStr(t.value)
                  THEN RegexExec(Tail(tokens), Drop(s, Len(t.value)))
                  ELSE NoExec
             ELSE LET run == RunLen(s)
                      fits(n) == RegexExec(Tail(tokens), Drop(s, n)).matched
                  IN  IF \E n \in 1..run : fits(n)
                      THEN LET n == CHOOSE n \in 1..run :
                                        fits(n) /\ \A m \in (n + 1)..run : ~fits(m)
                               rest == RegexExec(Tail(tokens), Drop(s, n))
                           IN  [matched |-> TRUE, caps |-> <<Take(s, n)>> \o rest.caps]
                      ELSE NoExec

(***************************************************************************)
(* parseUrl: adds "http://" when the string has no scheme, then new URL.   *)
(* Of the URL parser: after the scheme of a special URL every further "/"  *)
(* is skipped, the host runs to the next "/", "?" or "#" and may not be    *)
(* empty, the path runs to "?" or "#" and is "/" when empty, and search is *)
(* "?" with the query, or empty when the query is.                         *)
(***************************************************************************)
HTTP == "http://"

HTTPS == "https://"

\* the length of the longest prefix of s made of "/"
RECURSIVE SlashLen(_)
SlashLen(s) == IF s = <<>> \/ Head(s) # "/" THEN 0 ELSE 1 + SlashLen(Tail(s))

\* the length of the longest prefix of s without a character of stops
RECURSIVE UntilLen(_, _)
UntilLen(s, stops) ==
    IF s = <<>> \/ Head(s) \in stops THEN 0 ELSE 1 + UntilLen(Tail(s), stops)

ParseUrl(url) ==
    LET full == IF url # <<>> /\ Head(url) \in {HTTP, HTTPS} THEN url ELSE <<HTTP>> \o url
        afterScheme == Tail(full)
        fromHost == Drop(afterScheme, SlashLen(afterScheme))
        hostLen == UntilLen(fromHost, {"/", "?", "#"})
        fromPath == Drop(fromHost, hostLen)
        pathLen == UntilLen(fromPath, {"?", "#"})
        fromQuery == Drop(fromPath, pathLen)
        queryLen == IF fromQuery # <<>> /\ Head(fromQuery) = "?"
                    THEN UntilLen(Tail(fromQuery), {"#"}) ELSE 0
    IN  [ok |-> hostLen > 0,
         hostname |-> LowerStr(Take(fromHost, hostLen)),
         pathname |-> IF pathLen = 0 THEN <<"/">> ELSE Take(fromPath, pathLen),
         search |-> IF queryLen = 0 THEN <<>> ELSE Take(fromQuery, queryLen + 1)]

(***************************************************************************)
(* new URLSearchParams(queryString), then Object.fromEntries: pairs are    *)
(* split on "&", empty pairs are skipped, a pair is split at its first     *)
(* "=", "+" is a space, percent escapes are decoded, and of two pairs with *)
(* the same name the later one stays.                                      *)
(***************************************************************************)
\* the character a percent escape stands for
HexChar(a, b) ==
    CASE a = "0" /\ b = "0" -> "NUL"
      [] a = "0" /\ b = "2" -> "STX"
      [] a = "2" /\ b = "0" -> " "
      [] a = "2" /\ b = "2" -> "\""
      [] a = "2" /\ b = "3" -> "#"
      [] a = "2" /\ b = "4" -> "$"
      [] a = "4" /\ b = "0" -> "@"
      [] OTHER -> "?"

HexDigits == {"0", "1", "2", "3", "4"}

\* percent-decoding that leaves a malformed escape as it is (URLSearchParams)
RECURSIVE PercentDecode(_)
PercentDecode(s) ==
    IF s = <<>> THEN <<>>
    ELSE IF Head(s) = "%" /\ Len(s) >= 3 /\ s[2] \in HexDigits /\ s[3] \in HexDigits
    THEN <<HexChar(s[2], s[3])>> \o PercentDecode(Drop(s, 3))
    ELSE <<Head(s)>> \o PercentDecode(Tail(s))

PlusToSpace(s) == [i \in 1..Len(s) |-> IF s[i] = "+" THEN " " ELSE s[i]]

FormDecode(s) == PercentDecode(PlusToSpace(s))

\* Object.fromEntries of a sequence of <<name, value>> entries
RECURSIVE FromEntries(_)
FromEntries(entries) ==
    IF entries = <<>> THEN <<>>
    ELSE LET n == Len(entries)
             before == FromEntries(Take(entries, n - 1))
             e == entries[n]
         IN  [k \in DOMAIN before \cup {e[1]} |-> IF k = e[1] THEN e[2] ELSE before[k]]

RECURSIVE SearchParamsEntries(_)
SearchParamsEntries(pairs) ==
    IF pairs = <<>> THEN <<>>
    ELSE LET pair == Head(pairs)
             i == IndexOf(pair, "=")
             name == IF i = 0 THEN pair ELSE Take(pair, i - 1)
             value == IF i = 0 THEN <<>> ELSE Drop(pair, i)
         IN  (IF pair = <<>> THEN <<>>
              ELSE <<(<<FormDecode(name), FormDecode(value)>>)>>)
             \o SearchParamsEntries(Tail(pairs))

UrlSearchParams(queryString) ==
    LET q == IF queryString # <<>> /\ Head(queryString) = "?"
             THEN Tail(queryString) ELSE queryString
    IN  FromEntries(SearchParamsEntries(Split(q, "&")))

(***************************************************************************)
(* parseQuery: the query string is split on "&", every pair on every "=",  *)
(* every part goes through decodeURIComponent, and Object.fromEntries      *)
(* makes a property of the first part of each pair with the second part as *)
(* its value: undefined when the pair has one part only; further parts are *)
(* dropped.  decodeURIComponent throws a URIError for a "%" that two hex   *)
(* digits do not follow (the escapes of the model all stand for ASCII).    *)
(***************************************************************************)
\* the value undefined, where a string could be
Undefined == <<"undefined">>

\* whether decodeURIComponent(s) returns
RECURSIVE DecodeOk(_)
DecodeOk(s) ==
    IF s = <<>> THEN TRUE
    ELSE IF Head(s) = "%"
    THEN /\ Len(s) >= 3 /\ s[2] \in HexDigits /\ s[3] \in HexDigits
         /\ DecodeOk(Drop(s, 3))
    ELSE DecodeOk(Tail(s))

\* decodeURIComponent(s), when it returns
DecodeURIComponent(s) == PercentDecode(s)

\* pair.split('=').map(decodeURIComponent), as Object.fromEntries reads it
EntryOf(pair) ==
    LET parts == Split(pair, "=")
    IN  <<DecodeURIComponent(parts[1]),
          IF Len(parts) >= 2 THEN DecodeURIComponent(parts[2]) ELSE Undefined>>

\* ok = FALSE when parseQuery throws
ParseQuery(queryString) ==
    LET pairs == Split(queryString, "&")
    IN  IF queryString = <<>> THEN [ok |-> TRUE, value |-> <<>>]
        ELSE IF \E i \in 1..Len(pairs) : ~DecodeOk(pairs[i])
        THEN [ok |-> FALSE, value |-> <<>>]
        ELSE [ok |-> TRUE,
              value |-> FromEntries([i \in 1..Len(pairs) |-> EntryOf(pairs[i])])]

(***************************************************************************)
(* matchRoute: the first route, in table order, of the request's method    *)
(* whose regular expression matches the URL's pathname.  idx is the place  *)
(* of the returned route in the table (0: null was returned).              *)
(***************************************************************************)
NoRouteMatch ==
    [found |-> FALSE, idx |-> 0, params |-> <<>>, handler |-> "",
     query |-> <<>>, middlewares |-> <<>>]

\* a reduce that keeps the first capture group only
ParamsOfFirstOnly(keys, caps) ==
    IF keys = <<>> \/ caps = <<>> THEN <<>> ELSE (keys[1] :> caps[1])

\* match.slice(1).reduce(...): each key's name bound to its capture group
RECURSIVE ParamsOf(_, _)
ParamsOf(keys, caps) ==
    IF keys = <<>> \/ caps = <<>> THEN <<>>
    ELSE LET n == IF Len(keys) < Len(caps) THEN Len(keys) ELSE Len(caps)
             before == ParamsOf(Take(keys, n - 1), Take(caps, n - 1))
         IN  [k \in DOMAIN before \cup {keys[n]} |->
                 IF k = keys[n] THEN caps[n] ELSE before[k]]

RECURSIVE MatchFrom(_, _, _, _, _)
MatchFrom(i, method, path, queryString, table) ==
    IF i > Len(table) THEN NoRouteMatch
    ELSE LET route == table[i]
             match == RegexExec(route.pathRegex.tokens, path)
         IN  IF route.method = method /\ match.matched
             THEN [found |-> TRUE,
                   idx |-> i,
                   params |-> ParamsOf(route.pathRegex.keys, match.caps),
                   handler |-> route.callback,
                   query |-> IF queryString # <<>>
                             THEN UrlSearchParams(queryString) ELSE <<>>,
                   middlewares |-> route.middlewares]
             ELSE MatchFrom(i + 1, method, path, queryString, table)

\* a lookup that keeps the last match of the table instead of the first
MatchRouteLast(method, url, table) ==
    LET urlObj == ParseUrl(url)
        reversed == [i \in 1..Len(table) |-> table[Len(table) + 1 - i]]
        m == MatchFrom(1, method, urlObj.pathname, Drop(urlObj.search, 1), reversed)
    IN  IF m.found THEN [m EXCEPT !.idx = Len(table) + 1 - m.idx] ELSE m

\* a lookup that does not compare the method
MatchRouteAnyMethod(method, url, table) ==
    LET urlObj == ParseUrl(url)
    IN  MatchFrom(1, method, urlObj.pathname, Drop(urlObj.search, 1),
                  [i \in 1..Len(table) |-> [table[i] EXCEPT !.method = method]])

MatchRoute(method, url, table) ==
    LET urlObj == ParseUrl(url)
        path == urlObj.pathname
        queryString == Drop(urlObj.search, 1)
    IN  MatchFrom(1, method, path, queryString, table)

(***************************************************************************)
(* Response and ResponseBuilder.  Headers map the lower-cased name to the  *)
(* value.  new Response(body, {status, headers}) copies the headers and,   *)
(* for a string body without a Content-Type, adds the text/plain default;  *)
(* its statusText is the empty default, as the builder never passes its    *)
(* own.  origin tells which frame of the pipeline created the response     *)
(* object (0: fetch itself), the object's identity.                        *)
(***************************************************************************)
LowerName(k) ==
    CASE k = "Content-Type" -> "content-type"
      [] k = "X-Req" -> "x-req"
      [] k = "X-A" -> "x-a"
      [] k = "X-B" -> "x-b"
      [] OTHER -> k

\* the header names that are not HTTP tokens: Headers.prototype.set throws
ValidName(k) == k \notin {"", "X A"}

\* a header value without its leading and trailing HTTP whitespace
NormalizeValue(v) ==
    CASE v = " " -> ""
      [] OTHER -> v

\* Headers.prototype.set, for a valid name: the value is normalized
HeadersSet(h, k, v) ==
    [n \in DOMAIN h \cup {LowerName(k)} |->
        IF n = LowerName(k) THEN NormalizeValue(v) ELSE h[n]]

NoResponse == [status |-> 0, statusText |-> "", headers |-> <<>>, body |-> "", origin |-> 0]

NewResponse(body, status, headers, origin) ==
    [status |-> status,
     statusText |-> "",
     headers |-> IF "content-type" \in DOMAIN headers THEN headers
                 ELSE HeadersSet(headers, "Content-Type", "text/plain;charset=UTF-8"),
     body |-> body,
     origin |-> origin]

NewResponseBuilder == [statusCode |-> 200, statusText |-> "OK", headers |-> <<>>]

\* a check that lets 599 fail and 100 fail
StatusThrowsAtEnds(code) == code <= 100 \/ code >= 599

\* status(code): if (code < 100 || code > 599) throw
StatusThrows(code) == code < 100 \/ code > 599

\* setStatusText(text): if (!text) throw
SetStatusTextThrows(text) == text = ""

\* a check of the key only
HeaderThrowsForKey(key, value) == key = ""

\* header(key, value): if (!key || !value) throw
HeaderThrows(key, value) == key = "" \/ value = ""

\* status(code), for a code the method accepts
BuilderStatus(b, code) == [b EXCEPT !.statusCode = code]

\* header(key, value), for a key and a value the method accepts
BuilderHeader(b, key, value) == [b EXCEPT !.headers = HeadersSet(b.headers, key, value)]

\* send(data)
BuilderSend(b, data, origin) == NewResponse(data, b.statusCode, b.headers, origin)

\* JSON.stringify of the values the model sends
JsonStringify(data) ==
    CASE data = "x" -> "\"x\""
      [] data = "{a: 1}" -> "{\"a\":1}"
      [] OTHER -> data

\* html stamped as plain text
ContentTypeOfPlain(fn) ==
    CASE fn = "json" -> "application/json"
      [] fn = "html" -> "text/plain"
      [] fn = "text" -> "text/plain"
      [] OTHER -> ""

\* the Content-Type json, html and text set on the builder's headers
ContentTypeOf(fn) ==
    CASE fn = "json" -> "application/json"
      [] fn = "html" -> "text/html"
      [] fn = "text" -> "text/plain"
      [] OTHER -> ""

\* what new Response(body, {status}) throws by the Fetch standard ("": nothing):
\* a RangeError for a status outside 200..599, a TypeError for a body with a
\* null body status
ResponseThrows(status) ==
    IF status < 200 \/ status > 599 THEN "RangeError"
    ELSE IF status \in {204, 205, 304} THEN "TypeError"
    ELSE ""

(***************************************************************************)
(* The registered functions.  Middleware and handlers are the caller's     *)
(* code; the model runs these:                                             *)
(*   A  sets locals 'user' and the builder's X-Req header to the request,  *)
(*      awaits next(), sets X-A on the response it got and returns it      *)
(*   B  awaits next() and returns a new response, a copy with X-B added    *)
(*   S  returns event.response.status(401).send(..) without calling next   *)
(*   T  throws without calling next                                        *)
(*   C  awaits next() in a try block and, on an error, returns             *)
(*      event.response.status(503).send(..)                                *)
(*   W  awaits next(), drops what it got, and returns next()               *)
(* and the handlers  ok  (sends locals 'user' through the builder), fail   *)
(* (throws) and hang (returns a promise that never settles).  W and hang   *)
(* are registered by the applications that serve requests at once only.    *)
(***************************************************************************)
Middlewares == {"A", "B", "S", "T", "C"}

\* a dispatcher that goes on down the chain whatever the middleware did
CallsNextAlways(m) == TRUE

\* the middleware that call next()
CallsNext(m) == m \in {"A", "B", "C", "W"}

\* an await that drops the rest of the middleware
RunsAfterNever(m, kind) == FALSE

\* an await that goes on after a rejected promise
RunsAfterOnError(m, kind) == m \in {"A", "B"}

\* whether the middleware's code after await next() runs, given how the
\* awaited call ended: a rejected promise throws at the await
RunsAfter(m, kind) == m \in {"A", "B"} /\ kind = "value"

Handlers == {"ok", "fail", "hang"}

\* /home/:id, /home/profile, /user
PatHomeId == <<"/", "h", "/", ":", "i">>

PatHomeProfile == <<"/", "h", "/", "p">>

PatUser == <<"/", "u">>

\* the registrations the model draws from
RouteDefs ==
    { [method |-> "GET", path |-> PatHomeId, callback |-> "ok", middlewares |-> <<>>],
      [method |-> "GET", path |-> PatHomeProfile, callback |-> "ok",
       middlewares |-> <<"B", "A">>],
      [method |-> "POST", path |-> PatHomeProfile, callback |-> "ok",
       middlewares |-> <<"S">>],
      [method |-> "GET", path |-> PatUser, callback |-> "fail", middlewares |-> <<"A">>] }

\* the requests the model draws from
Requests ==
    { [method |-> "GET", url |-> <<HTTP, "x", "/", "h", "/", "p">>],
      [method |-> "POST", url |-> <<HTTP, "x", "/", "h", "/", "p">>],
      [method |-> "GET", url |-> <<HTTP, "x", "/", "u", "?", "k", "=", "v">>] }

MaxRoutes == 2

MaxGlobal == 2

MaxReq == 2

ReqIds == 1..MaxReq

\* the value a request leaves behind to be recognised by
ReqTag(r) == <<"r1", "r2", "r3", "r4">>[r]

(***************************************************************************)
(* The application context (createContext) and the requests in flight.     *)
(*   routes, globalMiddlewares, locals, configs   the context's own objects*)
(*   builders   the ResponseBuilder objects, by object id                  *)
(*   reqs       per call of fetch: its phase, the matched route, the       *)
(*              assembled chain, the stack of started applyMiddlewares     *)
(*              calls, the value or error on its way up, the calls made so *)
(*              far (trace) and the response fetch returned                *)
(* and, of the functions the application's code calls directly (the        *)
(* registration methods, the builder's methods, parseQuery):               *)
(*   thrown     the error the last such call threw to its caller ("": it   *)
(*              returned)                                                  *)
(*   returned   the last such call that returns a value, with its argument *)
(*              and the value                                              *)
(***************************************************************************)
VARIABLES routes, globalMiddlewares, locals, configs, builders, reqs, thrown,
          returned

vars == <<routes, globalMiddlewares, locals, configs, builders, reqs, thrown, returned>>

NoCall == [fn |-> "", arg |-> <<>>, out |-> <<>>]

NoBuilder == [statusCode |-> 0, statusText |-> "", headers |-> <<>>]

NoRet == [kind |-> "none", resp |-> NoResponse, err |-> ""]

Value(resp) == [kind |-> "value", resp |-> resp, err |-> ""]

\* a throw that settles nothing
ErrorLost(e) == [kind |-> "none", resp |-> NoResponse, err |-> ""]

Error(e) == [kind |-> "error", resp |-> NoResponse, err |-> e]

\* what a middleware or a handler may throw
Errors == {"E1", "E2"}

IdleReq ==
    [phase |-> "idle", method |-> "", url |-> <<>>, route |-> NoRouteMatch,
     chain |-> <<>>, stack |-> <<>>, ret |-> NoRet, trace |-> <<>>,
     response |-> NoResponse, logged |-> ""]

\* one builder made by createContext for every event
EventResponseShared(r) == 1

\* the builder object the event of request r holds: fetch makes one per call
EventResponse(r) == r

\* the locals map the event of request r holds: the context's one map
EventLocals(r) == locals

\* the route's middleware first
AllMiddlewaresRouteFirst(global, routeMiddlewares) == routeMiddlewares \o global

\* [...globalMiddlewares, ...route.middlewares]
AllMiddlewares(global, routeMiddlewares) == global \o routeMiddlewares

\* Map.prototype.set
MapSet(m, k, v) == [n \in DOMAIN m \cup {k} |-> IF n = k THEN v ELSE m[n]]

\* Map.prototype.get, with a default for undefined
MapGet(m, k, default) == IF k \in DOMAIN m THEN m[k] ELSE default

Init ==
    /\ routes = <<>>
    /\ globalMiddlewares = <<>>
    /\ locals = <<>>
    /\ builders = [r \in ReqIds |-> NoBuilder]
    /\ reqs = [r \in ReqIds |-> IdleReq]
    /\ thrown = ""
    /\ returned = NoCall
    /\ configs = <<>>

\* a use that is refused once a route is registered
UseBeforeRoutesOnly(m) ==
    /\ Len(globalMiddlewares) < MaxGlobal
    /\ globalMiddlewares' = IF routes = <<>> THEN Append(globalMiddlewares, m)
                            ELSE globalMiddlewares
    /\ thrown' = IF routes = <<>> THEN thrown ELSE "Routes are registered"
    /\ UNCHANGED <<routes, locals, builders, reqs, returned, configs>>

\* use(middleware)
Use(m) ==
    /\ Len(globalMiddlewares) < MaxGlobal
    /\ globalMiddlewares' = Append(globalMiddlewares, m)
    /\ UNCHANGED <<routes, locals, builders, reqs, thrown, returned, configs>>

\* the route addRoute pushes
RouteOf(method, path, callback, middlewares) ==
    [method |-> method, path |-> path, pathRegex |-> PathToRegex(path),
     callback |-> callback, middlewares |-> middlewares]

\* a registration that puts a route in the place of an earlier one with the
\* same method and path
AddRouteReplacing(method, path, callback, middlewares) ==
    /\ Len(routes) < MaxRoutes
    /\ routes' =
         IF ~PathToRegex(path).ok THEN routes
         ELSE IF \E i \in 1..Len(routes) :
                    routes[i].method = method /\ routes[i].path = path
         THEN [i \in 1..Len(routes) |->
                  IF routes[i].method = method /\ routes[i].path = path
                  THEN RouteOf(method, path, callback, middlewares)
                  ELSE routes[i]]
         ELSE Append(routes, RouteOf(method, path, callback, middlewares))
    /\ thrown' = IF PathToRegex(path).ok THEN "" ELSE "TypeError"
    /\ UNCHANGED <<globalMiddlewares, locals, builders, reqs, returned, configs>>

\* get, post, patch, del, put: addRoute with the method's name
AddRoute(method, path, callback, middlewares) ==
    /\ Len(routes) < MaxRoutes
    /\ routes' = IF PathToRegex(path).ok
                 THEN Append(routes, RouteOf(method, path, callback, middlewares))
                 ELSE routes
    /\ thrown' = IF PathToRegex(path).ok THEN "" ELSE "TypeError"
    /\ UNCHANGED <<globalMiddlewares, locals, builders, reqs, returned, configs>>

\* fetch(req), up to the call of applyMiddlewares(allMiddlewares, 0); when
\* new URL throws in matchRoute, which is called outside the try block,
\* fetch rejects and no response is made
Fetch(r, method, url) ==
    /\ reqs[r].phase = "idle"
    /\ LET route == MatchRoute(method, url, routes)
           response == NewResponseBuilder
       IN  IF ~ParseUrl(url).ok
           THEN /\ reqs' = [reqs EXCEPT ![r] =
                       [IdleReq EXCEPT
                           !.phase = "rejected", !.method = method, !.url = url]]
                /\ UNCHANGED builders
           ELSE IF route.found
           THEN /\ builders' = [builders EXCEPT ![EventResponse(r)] = response]
                /\ reqs' = [reqs EXCEPT ![r] =
                       [IdleReq EXCEPT
                           !.phase = "pending", !.method = method, !.url = url,
                           !.route = route,
                           !.chain = AllMiddlewares(globalMiddlewares, route.middlewares),
                           !.stack = <<[idx |-> 1, pc |-> "start"]>>]]
           ELSE /\ builders' = [builders EXCEPT
                                   ![EventResponse(r)] = BuilderStatus(response, 404)]
                /\ reqs' = [reqs EXCEPT ![r] =
                       [IdleReq EXCEPT
                           !.phase = "notfound", !.method = method, !.url = url,
                           !.response = BuilderSend(BuilderStatus(response, 404),
                                                    "Not Found", 0)]]
    /\ UNCHANGED <<routes, globalMiddlewares, locals, thrown, returned, configs>>

Top(stack) == stack[Len(stack)]

Pop(stack) == Take(stack, Len(stack) - 1)

\* a next() that passes over a place of the chain
PushNextSkip(stack) ==
    Append([stack EXCEPT ![Len(stack)].pc = "await"],
           [idx |-> Top(stack).idx + 2, pc |-> "start"])

\* the caller waits for the call of next() it makes
PushNext(stack) ==
    Append([stack EXCEPT ![Len(stack)].pc = "await"],
           [idx |-> Top(stack).idx + 1, pc |-> "start"])

\* the caller waits for the second call of next() it makes
PushNextAgain(stack) ==
    Append([stack EXCEPT ![Len(stack)].pc = "again"],
           [idx |-> Top(stack).idx + 1, pc |-> "start"])

\* a dispatcher that starts a place of the chain once only
CallsNextOnce(m, f, kind) == FALSE

\* the second call of next() a middleware makes after the first one settled
CallsNextAgain(m, f, kind) == m = "W" /\ f.pc = "await" /\ kind = "value"

Running(q) == q.phase \in {"pending", "running"}

\* applyMiddlewares(middlewares, index) with index < middlewares.length:
\* the middleware runs to its call of next(), or to its return or throw
CallMiddleware(r) ==
    LET q == reqs[r]
        f == Top(q.stack)
        m == q.chain[f.idx]
        b == builders[EventResponse(r)]
        before == Append(q.trace, [ev |-> "before", mw |-> m, idx |-> f.idx, got |-> 0])
    IN  /\ Running(q)
        /\ q.stack # <<>>
        /\ f.pc = "start"
        /\ f.idx <= Len(q.chain)
        /\ locals' = IF m = "A" THEN MapSet(locals, "user", ReqTag(r)) ELSE locals
        /\ builders' =
              [builders EXCEPT ![EventResponse(r)] =
                  CASE m = "A" -> BuilderHeader(b, "X-Req", ReqTag(r))
                    [] m = "S" -> BuilderStatus(b, 401)
                    [] OTHER -> b]
        /\ \E e \in Errors :
             reqs' = [reqs EXCEPT ![r] =
              [q EXCEPT
                  !.phase = "running",
                  !.trace = before,
                  !.stack = IF CallsNext(m) THEN PushNext(q.stack) ELSE Pop(q.stack),
                  !.ret = CASE m = "S" ->
                                 Value(BuilderSend(BuilderStatus(b, 401),
                                                   "Unauthorized", f.idx))
                            [] m = "T" -> Error(e)
                            [] OTHER -> NoRet]]
        /\ UNCHANGED <<routes, globalMiddlewares, thrown, returned, configs>>

\* a handler whose promise is rejected when it does not settle
HandlerReturnTimesOut(handler, resp, e) ==
    IF handler = "ok" THEN Value(resp) ELSE Error(e)

\* how the promise of route.handler(event) settles: ok resolves with the
\* response it sent, fail rejects, hang never settles
HandlerReturn(handler, resp, e) ==
    CASE handler = "ok" -> Value(resp)
      [] handler = "fail" -> Error(e)
      [] OTHER -> NoRet

\* a handler that writes to event.configs
CallHandlerSettingConfig(r) ==
    LET q == reqs[r]
        f == Top(q.stack)
        b == builders[EventResponse(r)]
    IN  /\ Running(q)
        /\ q.stack # <<>>
        /\ f.pc = "start"
        /\ f.idx = Len(q.chain) + 1
        /\ \E e \in Errors :
             reqs' = [reqs EXCEPT ![r] =
              [q EXCEPT
                  !.phase = "running",
                  !.trace = Append(q.trace,
                                   [ev |-> "handler", mw |-> "H", idx |-> f.idx, got |-> 0]),
                  !.stack = Pop(q.stack),
                  !.ret = HandlerReturn(q.route.handler,
                                        BuilderSend(b, MapGet(EventLocals(r), "user",
                                                              "anonymous"), f.idx),
                                        e)]]
        /\ configs' = MapSet(configs, <<"P">>, "b")
        /\ UNCHANGED <<routes, globalMiddlewares, locals, builders, thrown, returned>>

\* applyMiddlewares(middlewares, middlewares.length): route.handler(event)
CallHandler(r) ==
    LET q == reqs[r]
        f == Top(q.stack)
        b == builders[EventResponse(r)]
    IN  /\ Running(q)
        /\ q.stack # <<>>
        /\ f.pc = "start"
        /\ f.idx = Len(q.chain) + 1
        /\ \E e \in Errors :
             reqs' = [reqs EXCEPT ![r] =
              [q EXCEPT
                  !.phase = "running",
                  !.trace = Append(q.trace,
                                   [ev |-> "handler", mw |-> "H", idx |-> f.idx, got |-> 0]),
                  !.stack = Pop(q.stack),
                  !.ret = HandlerReturn(q.route.handler,
                                        BuilderSend(b, MapGet(EventLocals(r), "user",
                                                              "anonymous"), f.idx),
                                        e)]]
        /\ UNCHANGED <<routes, globalMiddlewares, locals, builders, thrown, returned, configs>>

\* a middleware's await next() settles: its code after next() runs
Resume(r) ==
    LET q == reqs[r]
        f == Top(q.stack)
        m == q.chain[f.idx]
        b == builders[EventResponse(r)]
        got == q.ret.resp
        after == Append(q.trace,
                        [ev |-> "after", mw |-> m, idx |-> f.idx, got |-> got.origin])
    IN  /\ Running(q)
        /\ q.stack # <<>>
        /\ f.pc \in {"await", "again"}
        /\ q.ret.kind # "none"
        /\ builders' =
              [builders EXCEPT ![EventResponse(r)] =
                  IF m = "C" /\ q.ret.kind = "error" THEN BuilderStatus(b, 503) ELSE b]
        /\ reqs' = [reqs EXCEPT ![r] =
              [q EXCEPT
                  !.stack = IF CallsNextAgain(m, f, q.ret.kind)
                            THEN PushNextAgain(q.stack) ELSE Pop(q.stack),
                  !.trace = IF RunsAfter(m, q.ret.kind) THEN after ELSE q.trace,
                  !.ret =
                     CASE CallsNextAgain(m, f, q.ret.kind) -> NoRet
                       [] RunsAfter(m, q.ret.kind) /\ m = "A" ->
                            Value([got EXCEPT !.headers = HeadersSet(got.headers, "X-A", "A")])
                       [] RunsAfter(m, q.ret.kind) /\ m = "B" ->
                            Value(NewResponse(got.body, got.status,
                                              HeadersSet(got.headers, "X-B", "B"), f.idx))
                       [] q.ret.kind = "error" /\ m = "C" ->
                            Value(BuilderSend(BuilderStatus(b, 503),
                                              "Service Unavailable", f.idx))
                       [] OTHER -> q.ret]]
        /\ UNCHANGED <<routes, globalMiddlewares, locals, thrown, returned, configs>>

\* a fetch whose catch answers with the error it caught
FinishExposing(r) ==
    LET q == reqs[r]
        b == builders[EventResponse(r)]
    IN  /\ Running(q)
        /\ q.stack = <<>>
        /\ q.ret.kind # "none"
        /\ IF q.ret.kind = "value"
           THEN /\ reqs' = [reqs EXCEPT ![r] =
                       [q EXCEPT !.phase = "completed", !.response = q.ret.resp,
                                 !.ret = NoRet]]
                /\ UNCHANGED builders
           ELSE /\ builders' = [builders EXCEPT
                                   ![EventResponse(r)] = BuilderStatus(b, 500)]
                /\ reqs' = [reqs EXCEPT ![r] =
                       [q EXCEPT !.phase = "failed", !.ret = NoRet,
                                 !.logged = q.ret.err,
                                 !.response = BuilderSend(BuilderStatus(b, 500),
                                                          q.ret.err, 0)]]
        /\ UNCHANGED <<routes, globalMiddlewares, locals, thrown, returned, configs>>

\* await applyMiddlewares(allMiddlewares, 0) settles: fetch returns, from the
\* try block or from its catch
Finish(r) ==
    LET q == reqs[r]
        b == builders[EventResponse(r)]
    IN  /\ Running(q)
        /\ q.stack = <<>>
        /\ q.ret.kind # "none"
        /\ IF q.ret.kind = "value"
           THEN /\ reqs' = [reqs EXCEPT ![r] =
                       [q EXCEPT !.phase = "completed", !.response = q.ret.resp,
                                 !.ret = NoRet]]
                /\ UNCHANGED builders
           ELSE /\ builders' = [builders EXCEPT
                                   ![EventResponse(r)] = BuilderStatus(b, 500)]
                /\ reqs' = [reqs EXCEPT ![r] =
                       [q EXCEPT !.phase = "failed", !.ret = NoRet,
                                 !.logged = q.ret.err,
                                 !.response = BuilderSend(BuilderStatus(b, 500),
                                                          "Internal Server Error", 0)]]
        /\ UNCHANGED <<routes, globalMiddlewares, locals, thrown, returned, configs>>

Serve(r) ==
    \/ \E q \in Requests : Fetch(r, q.method, q.url)
    \/ CallMiddleware(r)
    \/ CallHandler(r)
    \/ Resume(r)
    \/ Finish(r)

Setup ==
    \/ \E m \in Middlewares : Use(m)
    \/ \E d \in RouteDefs : AddRoute(d.method, d.path, d.callback, d.middlewares)

\* one application, set up and serving a request
Next == Setup \/ Serve(1)

Spec == Init /\ [][Next]_vars

(***************************************************************************)
(* Applications that are set up and serve several requests at once.        *)
(***************************************************************************)
Apps ==
    { [globalMiddlewares |-> <<"A">>,
       routes |-> <<RouteOf("GET", PatHomeId, "ok", <<>>),
                    RouteOf("GET", PatUser, "fail", <<>>)>>],
      [globalMiddlewares |-> <<"C", "B">>,
       routes |-> <<RouteOf("POST", PatHomeProfile, "ok", <<"S">>),
                    RouteOf("GET", PatUser, "fail", <<"A">>)>>],
      [globalMiddlewares |-> <<"W">>,
       routes |-> <<RouteOf("GET", PatUser, "ok", <<"A">>),
                    RouteOf("GET", PatHomeProfile, "hang", <<>>)>>] }

InitConc ==
    /\ \E app \in Apps :
          /\ routes = app.routes
          /\ globalMiddlewares = app.globalMiddlewares
    /\ locals = <<>>
    /\ builders = [r \in ReqIds |-> NoBuilder]
    /\ reqs = [r \in ReqIds |-> IdleReq]
    /\ thrown = ""
    /\ returned = NoCall
    /\ configs = <<>>

NextConc == \E r \in ReqIds : Serve(r)

SpecConc == InitConc /\ [][NextConc]_vars

\* the steps of one request's pipeline: the continuations of its promises
Dispatch(r) == CallMiddleware(r) \/ CallHandler(r) \/ Resume(r) \/ Finish(r)

\* the event loop runs every continuation that is ready
SpecLive == SpecConc /\ \A r \in ReqIds : WF_vars(Dispatch(r))

(***************************************************************************)
(* An application whose routes are registered, and which goes on adding    *)
(* global middleware while it serves a request.                            *)
(***************************************************************************)
NextLate ==
    \/ \E m \in Middlewares : Use(m)
    \/ Serve(1)

SpecLate == InitConc /\ [][NextLate]_vars

(***************************************************************************)
(* config(newConfigs): the keys are gone through in the order the object   *)
(* holds them (a sequence of <<key, value>> here); a key that differs from *)
(* its upper-case form throws, the keys before it having been stored.      *)
(* Lizard.create(config) calls the same function.  An application that is  *)
(* set up, is configured and serves a request.                             *)
(***************************************************************************)
\* String.prototype.toUpperCase on the letters of the model's alphabet
UpperChar(c) ==
    CASE c = "h" -> "H"
      [] c = "p" -> "P"
      [] c = "u" -> "U"
      [] OTHER -> c

ToUpperCase(s) == [i \in 1..Len(s) |-> UpperChar(s[i])]

\* a check of the first letter only
IsUpperCaseInitial(key) == key = <<>> \/ Head(key) = UpperChar(Head(key))

\* !(key !== key.toUpperCase())
IsUpperCase(key) == key = ToUpperCase(key)

\* a config that checks every key before it stores any
ConfigFromAtomic(store, newConfigs, i) ==
    LET keys == {newConfigs[j][1] : j \in 1..Len(newConfigs)}
        valueOf(k) == newConfigs[CHOOSE j \in 1..Len(newConfigs) : newConfigs[j][1] = k][2]
    IN  IF \E k \in keys : ~IsUpperCase(k)
        THEN [configs |-> store, thrown |-> "Config key must be uppercase"]
        ELSE [configs |-> [k \in DOMAIN store \cup keys |->
                              IF k \in keys THEN valueOf(k) ELSE store[k]],
              thrown |-> ""]

\* the for...in loop from the i-th key on
RECURSIVE ConfigFrom(_, _, _)
ConfigFrom(store, newConfigs, i) ==
    IF i > Len(newConfigs) THEN [configs |-> store, thrown |-> ""]
    ELSE IF ~IsUpperCase(newConfigs[i][1])
    THEN [configs |-> store, thrown |-> "Config key must be uppercase"]
    ELSE ConfigFrom(MapSet(store, newConfigs[i][1], newConfigs[i][2]), newConfigs, i + 1)

\* a config that replaces the store by the given object
ConfigClearing(newConfigs) ==
    /\ configs' = ConfigFrom(<<>>, newConfigs, 1).configs
    /\ thrown' = ConfigFrom(<<>>, newConfigs, 1).thrown
    /\ returned' = [fn |-> "config", arg |-> newConfigs, out |-> <<>>]
    /\ UNCHANGED <<routes, globalMiddlewares, locals, builders, reqs>>

\* config(newConfigs)
Config(newConfigs) ==
    /\ configs' = ConfigFrom(configs, newConfigs, 1).configs
    /\ thrown' = ConfigFrom(configs, newConfigs, 1).thrown
    /\ returned' = [fn |-> "config", arg |-> newConfigs, out |-> <<>>]
    /\ UNCHANGED <<routes, globalMiddlewares, locals, builders, reqs>>

MaxConfigKeys == 2

\* P, U, Pu: PORT, USER, Port
ConfigKeys == {<<"P">>, <<"U">>, <<"P", "u">>}

ConfigValues == {"a", "b"}

\* the objects given to config: up to MaxConfigKeys keys, each once
ConfigMaps ==
    {m \in UNION {[1..n -> ConfigKeys \X ConfigValues] : n \in 0..MaxConfigKeys} :
        \A i, j \in 1..Len(m) : m[i][1] = m[j][1] => i = j}

NextConfig ==
    \/ \E newConfigs \in ConfigMaps : Config(newConfigs)
    \/ Serve(1)

SpecConfig == InitConc /\ [][NextConfig]_vars

(***************************************************************************)
(* An application that registers routes of many shapes and looks one       *)
(* request up: the patterns and paths that route matching is about.        *)
(*   /u  /h/:i  /h/p  /h/:i/:n  /:i/:i  the empty pattern  /h/:            *)
(***************************************************************************)
PatTwoParams == <<"/", "h", "/", ":", "i", "/", ":", "n">>

PatSameName == <<"/", ":", "i", "/", ":", "i">>

PatEmpty == <<>>

PatBareColon == <<"/", "h", "/", ":">>

Patterns ==
    {PatUser, PatHomeId, PatHomeProfile, PatTwoParams, PatSameName, PatEmpty,
     PatBareColon}

\* the paths of the requests
Paths ==
    { <<"/">>,
      <<"/", "u">>, <<"/", "u", "/">>, <<"/", "U">>,
      <<"/", "h">>, <<"/", "h", "/">>,
      <<"/", "h", "/", "p">>, <<"/", "h", "/", "p", "/">>, <<"/", "H", "/", "p">>,
      <<"/", "h", "/", "%", "2", "0">>,
      <<"/", "h", "/", "p", "/", "x">>, <<"/", "h", "/", "p", "/", "x", "/", "u">> }

UrlOf(path) == <<HTTP, "x">> \o path

\* URLs without scheme and host: the paths, and one with a query string
RelativeUrls == Paths \cup {<<"/", "u", "?", "k", "=", "v">>}

NextMatch ==
    \/ \E pattern \in Patterns : AddRoute("GET", pattern, "ok", <<>>)
    \/ \E path \in Paths : Fetch(1, "GET", UrlOf(path))
    \/ \E url \in RelativeUrls : Fetch(1, "GET", url)
    \/ CallHandler(1)
    \/ Finish(1)

SpecMatch == Init /\ [][NextMatch]_vars

(***************************************************************************)
(* Query strings: parseQuery is called with a query string, and a request  *)
(* with the same query string is looked up on an application with the      *)
(* route GET /u.                                                           *)
(***************************************************************************)
MaxQueryLen == 3

QueryAlphabet == {"k", "v", "=", "&", "%", "2", "0", "+"}

\* k=v=v  k=%20&v=2  k&k=v  k=v&k  k=v&v=k
QueryStrings ==
    UNION {[1..n -> QueryAlphabet] : n \in 0..MaxQueryLen}
    \cup { <<"k", "=", "v", "=", "v">>,
           <<"k", "=", "%", "2", "0", "&", "v", "=", "2">>,
           <<"k", "&", "k", "=", "v">>,
           <<"k", "=", "v", "&", "k">>,
           <<"k", "=", "v", "&", "v", "=", "k">> }

\* a direct call of parseQuery(queryString)
ParseQueryCall(queryString) ==
    /\ returned = NoCall
    /\ configs = <<>>
    /\ thrown' = IF ParseQuery(queryString).ok THEN "" ELSE "URIError"
    /\ returned' = [fn |-> "parseQuery", arg |-> queryString,
                    out |-> ParseQuery(queryString).value]
    /\ UNCHANGED <<routes, globalMiddlewares, locals, builders, reqs, configs>>

UrlWithQuery(queryString) == UrlOf(PatUser) \o <<"?">> \o queryString

InitQuery ==
    /\ routes = <<RouteOf("GET", PatUser, "ok", <<>>)>>
    /\ globalMiddlewares = <<>>
    /\ locals = <<>>
    /\ builders = [r \in ReqIds |-> NoBuilder]
    /\ reqs = [r \in ReqIds |-> IdleReq]
    /\ thrown = ""
    /\ returned = NoCall
    /\ configs = <<>>

NextQuery ==
    \/ \E queryString \in QueryStrings : ParseQueryCall(queryString)
    \/ returned.fn = "parseQuery" /\ Fetch(1, "GET", UrlWithQuery(returned.arg))
    \/ CallHandler(1)
    \/ Finish(1)

SpecQuery == InitQuery /\ [][NextQuery]_vars

(***************************************************************************)
(* A Response Builder on its own: new ResponseBuilder(), then any calls of *)
(* its methods.  The builder is the object 1.  A runtime that follows the  *)
(* Fetch standard throws from new Response for a status or a body it does  *)
(* not allow; both that and a runtime that does not check are modelled.    *)
(***************************************************************************)
Codes == {99, 100, 204, 599, 600}

StatusTexts == {"", "Created"}

HeaderKeys == {"", "X-A", "X A", "Content-Type"}

HeaderValues == {"", " ", "v"}

Bodies == {"x"}

\* the value given to json: the object {a: 1}
JsonValues == {"{a: 1}"}

Finalizers == {"json", "send", "html", "text"}

DataOf(fn) == IF fn = "json" THEN JsonValues ELSE Bodies

InitBuilder ==
    /\ routes = <<>>
    /\ globalMiddlewares = <<>>
    /\ locals = <<>>
    /\ builders = [r \in ReqIds |-> IF r = 1 THEN NewResponseBuilder ELSE NoBuilder]
    /\ reqs = [r \in ReqIds |-> IdleReq]
    /\ thrown = ""
    /\ returned = NoCall
    /\ configs = <<>>

\* a status that assigns the code before it checks it
StatusAssignsFirst(code) ==
    /\ thrown' = IF StatusThrows(code) THEN "Invalid status code" ELSE ""
    /\ builders' = [builders EXCEPT ![1] = BuilderStatus(@, code)]
    /\ UNCHANGED <<routes, globalMiddlewares, locals, reqs, returned, configs>>

\* event.response.status(code)
Status(code) ==
    /\ IF StatusThrows(code)
       THEN /\ thrown' = "Invalid status code"
            /\ UNCHANGED builders
       ELSE /\ thrown' = ""
            /\ builders' = [builders EXCEPT ![1] = BuilderStatus(@, code)]
    /\ UNCHANGED <<routes, globalMiddlewares, locals, reqs, returned, configs>>

\* event.response.setStatusText(text)
SetStatusText(text) ==
    /\ IF SetStatusTextThrows(text)
       THEN /\ thrown' = "Status text cannot be empty"
            /\ UNCHANGED builders
       ELSE /\ thrown' = ""
            /\ builders' = [builders EXCEPT ![1].statusText = text]
    /\ UNCHANGED <<routes, globalMiddlewares, locals, reqs, returned, configs>>

\* event.response.header(key, value)
Header(key, value) ==
    /\ IF HeaderThrows(key, value)
       THEN /\ thrown' = "Header key and value cannot be empty"
            /\ UNCHANGED builders
       ELSE IF ~ValidName(key)
       THEN /\ thrown' = "TypeError"
            /\ UNCHANGED builders
       ELSE /\ thrown' = ""
            /\ builders' = [builders EXCEPT ![1] = BuilderHeader(@, key, value)]
    /\ UNCHANGED <<routes, globalMiddlewares, locals, reqs, returned, configs>>

\* event.response.json(data), .send(data), .html(data), .text(data)
Finalize(fn, data) ==
    LET b == IF fn = "send" THEN builders[1]
             ELSE BuilderHeader(builders[1], "Content-Type", ContentTypeOf(fn))
        body == IF fn = "json" THEN JsonStringify(data) ELSE data
    IN  /\ builders' = [builders EXCEPT ![1] = b]
        /\ \E checked \in BOOLEAN :
              IF checked /\ ResponseThrows(b.statusCode) # ""
              THEN /\ thrown' = ResponseThrows(b.statusCode)
                   /\ UNCHANGED returned
              ELSE /\ thrown' = ""
                   /\ returned' = [fn |-> fn, arg |-> data,
                                   out |-> BuilderSend(b, body, 0)]
        /\ UNCHANGED <<routes, globalMiddlewares, locals, reqs, configs>>

NextBuilder ==
    \/ \E code \in Codes : Status(code)
    \/ \E text \in StatusTexts : SetStatusText(text)
    \/ \E key \in HeaderKeys, value \in HeaderValues : Header(key, value)
    \/ \E fn \in Finalizers : \E data \in DataOf(fn) : Finalize(fn, data)

SpecBuilder == InitBuilder /\ [][NextBuilder]_vars

(***************************************************************************)
(* Properties                                                              *)
(***************************************************************************)
IsPrefix(a, b) == Len(a) <= Len(b) /\ Take(b, Len(a)) = a

\* the calls of a request so far, as <<what, chain index>>
TraceShape(q) == [i \in 1..Len(q.trace) |-> <<q.trace[i].ev, q.trace[i].idx>>]

\* the middleware with code after await next() that return a response
PostProcessing == {"A", "B"}

\* the middleware that return the very response their next() gave them
ReturnsWhatItGot == {"A", "C"}

\* the places in the table of the routes of the method that match the URL's path
Candidates(method, url, table) ==
    {i \in 1..Len(table) :
        /\ table[i].method = method
        /\ RegexExec(table[i].pathRegex.tokens, ParseUrl(url).pathname).matched}

FirstMatchLookup(q, table) ==
    LET cands == Candidates(q.method, q.url, table)
    IN  IF cands = {}
        THEN q.route = NoRouteMatch
        ELSE /\ q.route.found
             /\ q.route.idx \in cands
             /\ \A j \in cands : q.route.idx <= j
             /\ q.route.handler = table[q.route.idx].callback
             /\ q.route.middlewares = table[q.route.idx].middlewares
             /\ (/\ Len(table) >= 2
                 /\ table[1].method = "GET" /\ table[1].path = PatHomeId
                 /\ table[2].method = "GET" /\ table[2].path = PatHomeProfile
                 /\ q.method = "GET"
                 /\ ParseUrl(q.url).pathname = PatHomeProfile)
                => q.route.idx = 1 /\ q.route.params = (<<"i">> :> <<"p">>)

\* C1: the lookup a request starts with returns the first route of the table, in
\* registration order, whose method is the request's and whose pattern matches
\* the path, and null when there is none; GET /home/:id registered before
\* GET /home/profile serves GET /home/profile with id = "profile"; a route of
\* another method is never returned.
C1_FirstMatchInOrder ==
    [][\A r \in ReqIds :
          (reqs[r].phase = "idle" /\ reqs'[r].phase # "idle")
          => FirstMatchLookup(reqs'[r], routes)]_vars

C1_ShadowedWitness ==
    /\ Len(routes) = 2
    /\ routes[1].method = "GET" /\ routes[1].path = PatHomeId
    /\ routes[2].method = "GET" /\ routes[2].path = PatHomeProfile
    /\ reqs[1].method = "GET"
    /\ ParseUrl(reqs[1].url).pathname = PatHomeProfile
    /\ reqs[1].route.idx = 1
    /\ reqs[1].route.params = (<<"i">> :> <<"p">>)

\* before(1..n), the handler, after(n..1)
ExpectedOnion(n) ==
    [i \in 1..(2 * n + 1) |->
        IF i <= n THEN <<"before", i>>
        ELSE IF i = n + 1 THEN <<"handler", n + 1>>
        ELSE <<"after", 2 * n + 2 - i>>]

\* C2: when every middleware of the chain awaits next() and then returns, the
\* calls of a request happen in the order before(1), .., before(n), handler,
\* after(n), .., after(1): for [A, B] that is A(before), B(before), H, B(after),
\* A(after).
C2_OnionOrder ==
    \A r \in ReqIds :
        LET q == reqs[r]
        IN  (q.route.found /\ \A i \in 1..Len(q.chain) : q.chain[i] \in PostProcessing)
            => /\ IsPrefix(TraceShape(q), ExpectedOnion(Len(q.chain)))
               /\ \A p \in 1..Len(q.trace) :
                     q.trace[p].ev # "handler" => q.trace[p].mw = q.chain[q.trace[p].idx]
               /\ (q.phase = "completed"
                   => TraceShape(q) = ExpectedOnion(Len(q.chain)))

C2_ABWitness ==
    /\ reqs[1].phase = "completed"
    /\ reqs[1].chain = <<"A", "B">>
    /\ TraceShape(reqs[1]) = << <<"before", 1>>, <<"before", 2>>, <<"handler", 3>>,
                                <<"after", 2>>, <<"after", 1>> >>

\* C3: the chain of a matched request is the global list as registered, then the
\* matched route's list in its order, and stays that; every middleware that runs
\* is the one at its place of that chain, and none runs before the one at the
\* place before it has: no route middleware before a global one, none of a route
\* that was not matched.
C3_GlobalThenRoute ==
    [][\A r \in ReqIds :
          LET q == reqs'[r]
          IN  /\ (reqs[r].phase = "idle" /\ q.route.found)
                 => q.chain = globalMiddlewares \o routes[q.route.idx].middlewares
              /\ reqs[r].phase # "idle" => q.chain = reqs[r].chain
              /\ \A p \in 1..Len(q.trace) :
                    LET e == q.trace[p]
                    IN  e.ev \in {"before", "after"}
                        => /\ e.idx \in 1..Len(q.chain)
                           /\ e.mw = q.chain[e.idx]
                           /\ (e.ev = "before" /\ e.idx > 1)
                              => \E p2 \in 1..(p - 1) :
                                    /\ q.trace[p2].ev = "before"
                                    /\ q.trace[p2].idx = e.idx - 1]_vars

C3_Witness ==
    /\ reqs[1].phase = "completed"
    /\ Len(routes) = 2
    /\ routes[reqs[1].route.idx].middlewares # <<>>
    /\ routes[3 - reqs[1].route.idx].middlewares # routes[reqs[1].route.idx].middlewares
    /\ Len(reqs[1].chain) > Len(routes[reqs[1].route.idx].middlewares)
    /\ Len(SelectSeq(reqs[1].trace, LAMBDA e : e.ev = "before")) = Len(reqs[1].chain)

\* C4 as stated: when the middleware at place i returns a response without
\* calling next(), nothing at a later place and not the handler is called, and
\* every earlier middleware gets that response from its next().
C4_EveryEarlierGetsIt ==
    \A r \in ReqIds :
        LET q == reqs[r]
        IN  \A p \in 1..Len(q.trace) :
                q.trace[p].mw = "S"
                => /\ \A p2 \in 1..Len(q.trace) : q.trace[p2].idx <= q.trace[p].idx
                   /\ \A p2 \in 1..Len(q.trace) :
                         q.trace[p2].ev = "after" => q.trace[p2].got = q.trace[p].idx

\* C4, amended: when the middleware at place i returns a response without
\* calling next(), nothing at a later place and not the handler is called; the
\* middleware at place i-1 gets that response from its next(), and one further
\* up gets it when every middleware in between returns what its next() gave it.
C4_ShortCircuit ==
    \A r \in ReqIds :
        LET q == reqs[r]
        IN  \A p \in 1..Len(q.trace) :
                q.trace[p].mw = "S"
                => /\ \A p2 \in 1..Len(q.trace) : q.trace[p2].idx <= q.trace[p].idx
                   /\ \A p2 \in 1..Len(q.trace) :
                         (/\ q.trace[p2].ev = "after"
                          /\ \A k \in (q.trace[p2].idx + 1)..(q.trace[p].idx - 1) :
                                q.chain[k] \in ReturnsWhatItGot)
                         => q.trace[p2].got = q.trace[p].idx

C4_Witness ==
    /\ reqs[1].phase = "completed"
    /\ reqs[1].chain = <<"B", "A", "S">>
    /\ \E p \in 1..Len(reqs[1].trace) :
          /\ reqs[1].trace[p].ev = "after"
          /\ reqs[1].trace[p].idx = 1
          /\ reqs[1].trace[p].got = 3

\* a chain of two: a middleware that awaits next() and returns, then one that
\* returns without calling next()
ShortCircuitedPair(q) ==
    /\ q.route.found
    /\ Len(q.chain) = 2
    /\ q.chain[1] \in PostProcessing
    /\ q.chain[2] = "S"

\* C5 as stated: in [A, B] around H with B returning without calling next(), H
\* never runs and A's code after next() never runs.
C5_AfterNeverRuns ==
    \A r \in ReqIds :
        ShortCircuitedPair(reqs[r])
        => \A p \in 1..Len(reqs[r].trace) : reqs[r].trace[p].ev = "before"

\* C5, amended: in [A, B] around H with B returning without calling next(), H
\* never runs; A(before) has run, and A's code after next() runs as well, with
\* B's response as what next() gave it.
C5_HandlerSkippedAfterRuns ==
    \A r \in ReqIds :
        LET q == reqs[r]
        IN  ShortCircuitedPair(q)
            => /\ IsPrefix(TraceShape(q),
                           << <<"before", 1>>, <<"before", 2>>, <<"after", 1>> >>)
               /\ q.phase # "failed"
               /\ q.phase = "completed"
                  => /\ Len(q.trace) = 3
                     /\ q.trace[3].got = 2
                     /\ q.response.status = 401

C5_Witness ==
    /\ reqs[1].phase = "completed"
    /\ reqs[1].chain = <<"A", "S">>
    /\ Len(reqs[1].trace) = 3
    /\ reqs[1].trace[3].ev = "after"

\* the call that raised an error
Throws(q, e) == e.mw = "T" \/ (e.ev = "handler" /\ q.route.handler = "fail")

\* C6: when the handler or a middleware raises an error and no middleware
\* further up catches it, fetch returns a response of status 500 (and none other,
\* and no error), and no code after next() of the middleware above has run.
C6_ErrorGives500 ==
    \A r \in ReqIds :
        LET q == reqs[r]
        IN  /\ q.phase = "failed"
               => /\ q.response.status = 500
                  /\ q.response.body = "Internal Server Error"
            /\ \A p \in 1..Len(q.trace) :
                  (/\ Throws(q, q.trace[p])
                   /\ \A k \in 1..(q.trace[p].idx - 1) : q.chain[k] # "C")
                  => /\ q.phase \in {"running", "failed"}
                     /\ (q.stack = <<>> /\ q.ret.kind = "none") => q.phase = "failed"
                     /\ \A p2 \in 1..Len(q.trace) : q.trace[p2].ev # "after"

C6_Witness ==
    /\ reqs[1].phase = "failed"
    /\ reqs[1].response.status = 500
    /\ reqs[1].chain = <<"B", "A">>
    /\ Len(reqs[1].trace) = 3

\* C7: the 500 response after an error carries nothing that was set on the
\* request's builder before the error: it is the response a fresh builder gives.
C7_NoBuilderStateIn500 ==
    \A r \in ReqIds :
        reqs[r].phase = "failed"
        => reqs[r].response =
              BuilderSend(BuilderStatus(NewResponseBuilder, 500),
                          "Internal Server Error", 0)

\* C8: a request whose method and path match no registered route gets a
\* response of status 404, and nothing is called for it: no handler, no route
\* middleware, no global middleware.
C8_NotFound ==
    [][\A r \in ReqIds :
          LET q == reqs'[r]
          IN  /\ (/\ reqs[r].phase = "idle"
                  /\ q.phase # "idle"
                  /\ Candidates(q.method, q.url, routes) = {})
                 => q.phase = "notfound"
              /\ q.phase = "notfound"
                 => /\ q.response.status = 404
                    /\ q.response.body = "Not Found"
                    /\ q.trace = <<>>
                    /\ q.stack = <<>>
              /\ reqs[r].phase = "notfound" => q = reqs[r]]_vars

C8_Witness ==
    /\ reqs[1].phase = "notfound"
    /\ reqs[1].response.status = 404
    /\ globalMiddlewares # <<>>
    /\ \E i \in 1..Len(routes) :
          /\ routes[i].method # reqs[1].method
          /\ RegexExec(routes[i].pathRegex.tokens, ParseUrl(reqs[1].url).pathname).matched

\* C9: event.locals of a request is its own: a key written while one request is
\* handled is never there for another request, and the map starts empty.
C9_LocalsOwnedByRequest ==
    \A r \in ReqIds :
        /\ reqs[r].phase = "pending" => EventLocals(r) = <<>>
        /\ reqs[r].route.found
           => \A k \in DOMAIN EventLocals(r) : EventLocals(r)[k] = ReqTag(r)

\* the status codes the calls of the request itself account for
OwnStatuses(q) ==
    {200} \cup (IF \E p \in 1..Len(q.trace) : q.trace[p].mw = "S" THEN {401} ELSE {})
          \cup (IF \E i \in 1..Len(q.chain) : q.chain[i] = "C" THEN {503} ELSE {})

\* the values of the headers
ValuesOfHeaders(h) == {h[n] : n \in DOMAIN h}

\* C10: every request gets a builder of its own that starts with status 200,
\* text OK and no headers, and under every interleaving of requests no status
\* and no header set on one request's builder shows in another's response.
C10_BuilderPerRequest ==
    \A r \in ReqIds :
        LET q == reqs[r]
            b == builders[EventResponse(r)]
        IN  /\ q.phase = "pending" => b = [statusCode |-> 200, statusText |-> "OK",
                                           headers |-> <<>>]
            /\ \A r2 \in ReqIds \ {r} :
                  /\ q.phase # "idle" => ReqTag(r2) \notin ValuesOfHeaders(b.headers)
                  /\ ReqTag(r2) \notin ValuesOfHeaders(q.response.headers)
                  /\ ReqTag(r2) \notin ValuesOfHeaders(q.ret.resp.headers)
            /\ q.phase = "completed" => q.response.status \in OwnStatuses(q)
            /\ q.phase = "notfound" => q.response.status = 404
            /\ q.phase = "failed" => q.response.status = 500

C10_Witness ==
    /\ reqs[1].phase = "running"
    /\ "x-req" \in DOMAIN builders[1].headers
    /\ builders[1].headers["x-req"] = "r1"
    /\ reqs[2].phase = "completed"
    /\ "x-req" \in DOMAIN reqs[2].response.headers
    /\ reqs[2].response.headers["x-req"] = "r2"

(***************************************************************************)
(* Route matching                                                          *)
(***************************************************************************)
\* the segments of a pattern or a path: split on "/", without the empty
\* segment a leading "/" gives
Segments(s) ==
    LET parts == Split(s, "/")
    IN  IF Head(parts) = <<>> THEN Tail(parts) ELSE parts

IsNamed(seg) == seg # <<>> /\ Head(seg) = ":"

NamedPlaces(pat) == {i \in 1..Len(pat) : IsNamed(pat[i])}

NamesDistinct(pat) ==
    \A i, j \in NamedPlaces(pat) : pat[i] = pat[j] => i = j

\* the request was looked up and a route was returned
Matched(q) == q.phase # "idle" /\ q.route.found

\* the same, for a route whose pattern is not the empty string
MatchedPattern(q) == Matched(q) /\ routes[q.route.idx].path # PatEmpty

\* the segments of the pattern of the route the lookup returned
PatternOf(q) == Segments(routes[q.route.idx].path)

PathOf(q) == Segments(ParseUrl(q.url).pathname)

\* C11: a route is returned only for a path with as many segments as the
\* route's pattern has, and with a non-empty segment at every named place.
C11_SegmentCountsAgree ==
    \A r \in ReqIds :
        MatchedPattern(reqs[r]) =>
            /\ Len(PathOf(reqs[r])) = Len(PatternOf(reqs[r]))
            /\ \A i \in NamedPlaces(PatternOf(reqs[r])) :
                   i <= Len(PathOf(reqs[r])) => PathOf(reqs[r])[i] # <<>>

\* C12: a route is never returned for a path that is the route's pattern with
\* one more "/" at its end.
C12_NoTrailingSlashLeniency ==
    \A r \in ReqIds :
        MatchedPattern(reqs[r]) =>
            ParseUrl(reqs[r].url).pathname
                # Append(routes[reqs[r].route.idx].path, "/")

\* C13: a route is returned only for a path whose segments at the pattern's
\* literal places are the pattern's segments, letter case included.
C13_LiteralsCaseSensitive ==
    \A r \in ReqIds :
        MatchedPattern(reqs[r]) =>
            \A i \in 1..Len(PatternOf(reqs[r])) :
                (i <= Len(PathOf(reqs[r])) /\ ~IsNamed(PatternOf(reqs[r])[i]))
                    => PathOf(reqs[r])[i] = PatternOf(reqs[r])[i]

\* the path has the pattern's segment count and the pattern's literal segments
Agrees(pat, pth) ==
    /\ Len(pth) = Len(pat)
    /\ \A i \in 1..Len(pat) : ~IsNamed(pat[i]) => pth[i] = pat[i]

\* one entry for every named place, the name bound to the path's segment there
BindsInOrder(params, pat, pth) ==
    /\ Cardinality(DOMAIN params) = Cardinality(NamedPlaces(pat))
    /\ \A i \in NamedPlaces(pat) :
           /\ Tail(pat[i]) \in DOMAIN params
           /\ params[Tail(pat[i])] = pth[i]

\* the step in which fetch looks the request up
Looked(r) == reqs[r].phase = "idle" /\ reqs'[r].phase # "idle"

\* the lookup returned the route at place i, with its parameters bound in
\* order, or a route before it
ReturnsRouteAt(q, i) ==
    /\ q.route.found
    /\ q.route.idx <= i
    /\ q.route.idx = i =>
           BindsInOrder(q.route.params, Segments(routes[i].path),
                        Segments(ParseUrl(q.url).pathname))

\* C14 as stated: a path with the segment count of a registered pattern and
\* the pattern's literal segments at the literal places is matched by it, and
\* the params hold one entry for every named segment, the name bound to the
\* path's segment at its place.
C14_EveryAgreeingPathMatches ==
    [][\A r \in ReqIds : \A i \in 1..Len(routes) :
          (/\ Looked(r)
           /\ routes[i].method = reqs'[r].method
           /\ Agrees(Segments(routes[i].path),
                     Segments(ParseUrl(reqs'[r].url).pathname)))
          => ReturnsRouteAt(reqs'[r], i)]_vars

\* C14, amended: the same, for a pattern whose names are distinct and a path
\* whose segments at the named places are not empty.
C14_AgreeingPathMatches ==
    [][\A r \in ReqIds : \A i \in 1..Len(routes) :
          (/\ Looked(r)
           /\ routes[i].method = reqs'[r].method
           /\ NamesDistinct(Segments(routes[i].path))
           /\ Agrees(Segments(routes[i].path),
                     Segments(ParseUrl(reqs'[r].url).pathname))
           /\ \A n \in NamedPlaces(Segments(routes[i].path)) :
                  Segments(ParseUrl(reqs'[r].url).pathname)[n] # <<>>)
          => ReturnsRouteAt(reqs'[r], i)]_vars

\* /h/:i/:n has matched /h/p/x and bound i to p and n to x
C14_Witness ==
    /\ Matched(reqs[1])
    /\ routes[reqs[1].route.idx].path = PatTwoParams
    /\ ParseUrl(reqs[1].url).pathname = <<"/", "h", "/", "p", "/", "x">>
    /\ reqs[1].route.params = (<<"i">> :> <<"p">> @@ <<"n">> :> <<"x">>)

\* C15: the value a named segment captures is the path's segment with its
\* percent escapes decoded.
C15_ParamsAreDecoded ==
    \A r \in ReqIds :
        (MatchedPattern(reqs[r]) /\ NamesDistinct(PatternOf(reqs[r]))) =>
            \A i \in NamedPlaces(PatternOf(reqs[r])) :
                /\ Tail(PatternOf(reqs[r])[i]) \in DOMAIN reqs[r].route.params
                /\ reqs[r].route.params[Tail(PatternOf(reqs[r])[i])]
                      = PercentDecode(PathOf(reqs[r])[i])

\* C16 as far as a bare ':' goes: the registration throws and the table stays
C16_BareColonRejected ==
    [][AddRoute("GET", PatBareColon, "ok", <<>>)
          => (thrown' # "" /\ routes' = routes)]_vars

\* C16: registering the empty pattern or a pattern with a bare ':' throws to
\* the caller and leaves the route table as it was.
C16_InvalidPatternRejected ==
    [][\A pattern \in {PatEmpty, PatBareColon} :
          AddRoute("GET", pattern, "ok", <<>>)
              => (thrown' # "" /\ routes' = routes)]_vars

(***************************************************************************)
(* Query strings                                                           *)
(***************************************************************************)
\* the entry of a pair that is split at its first "=" only
EntryOfFirstEquals(pair) ==
    LET i == IndexOf(pair, "=")
    IN  <<DecodeURIComponent(Take(pair, i - 1)), DecodeURIComponent(Drop(pair, i))>>

\* C17: parseQuery of the empty string is the empty mapping; of a query
\* string whose pairs all hold an "=", it is the mapping of each pair's decoded
\* text before its first "=" to the decoded text after it.
C17_SplitsAtFirstEquals ==
    (returned.fn = "parseQuery" /\ thrown = "") =>
        LET pairs == Split(returned.arg, "&")
        IN  /\ returned.arg = <<>> => returned.out = <<>>
            /\ (\A i \in 1..Len(pairs) : IndexOf(pairs[i], "=") > 0) =>
                   returned.out
                     = FromEntries([i \in 1..Len(pairs) |-> EntryOfFirstEquals(pairs[i])])

\* the places of the pairs without "=" whose key no later pair gives again
BarePairs(pairs, Key(_)) ==
    {i \in 1..Len(pairs) :
        /\ pairs[i] # <<>>
        /\ IndexOf(pairs[i], "=") = 0
        /\ \A j \in (i + 1)..Len(pairs) :
               Key(Take(pairs[j], IF IndexOf(pairs[j], "=") = 0 THEN Len(pairs[j])
                                  ELSE IndexOf(pairs[j], "=") - 1)) # Key(pairs[i])}

\* C18: a pair without "=" gives its key with the empty string as the value,
\* in what parseQuery returns and in the query of the route lookup.
C18_BareKeyIsEmptyString ==
    /\ (returned.fn = "parseQuery" /\ thrown = "") =>
           LET pairs == Split(returned.arg, "&")
           IN  \A i \in BarePairs(pairs, DecodeURIComponent) :
                   /\ DecodeURIComponent(pairs[i]) \in DOMAIN returned.out
                   /\ returned.out[DecodeURIComponent(pairs[i])] = <<>>
    /\ \A r \in ReqIds :
           Matched(reqs[r]) =>
               LET pairs == Split(Drop(ParseUrl(reqs[r].url).search, 1), "&")
               IN  \A i \in BarePairs(pairs, FormDecode) :
                       /\ FormDecode(pairs[i]) \in DOMAIN reqs[r].route.query
                       /\ reqs[r].route.query[FormDecode(pairs[i])] = <<>>

\* the part of C18 about the route lookup
C18_LookupBareKeyIsEmptyString ==
    \A r \in ReqIds :
        Matched(reqs[r]) =>
            LET pairs == Split(Drop(ParseUrl(reqs[r].url).search, 1), "&")
            IN  \A i \in BarePairs(pairs, FormDecode) :
                    /\ FormDecode(pairs[i]) \in DOMAIN reqs[r].route.query
                    /\ reqs[r].route.query[FormDecode(pairs[i])] = <<>>

\* C38: the query mapping that the route lookup returns for a URL is what
\* parseQuery returns for the URL's query string, whatever the query
\* string.
C38_LookupQueryIsParseQuery ==
    (returned.fn = "parseQuery" /\ Matched(reqs[1])) =>
        /\ thrown = ""
        /\ reqs[1].route.query = returned.out

(***************************************************************************)
(* The Response Builder                                                    *)
(***************************************************************************)
\* C19: status(code) throws and leaves the builder as it was for every code
\* below 100 or above 599, and returns with the code stored for every code
\* from 100 to 599.
C19_StatusRange ==
    [][\A code \in Codes :
          Status(code) =>
              IF code < 100 \/ code > 599
              THEN thrown' = "Invalid status code" /\ builders' = builders
              ELSE thrown' = "" /\ builders'[1].statusCode = code]_vars

\* status(599) has stored its code, and a later status(600) or status(99) has
\* thrown and left it
C19_Witness ==
    /\ builders[1].statusCode = 599
    /\ thrown = "Invalid status code"

\* C20: whatever was called on a builder, its status code is within 100..599,
\* its status text is not empty and none of its headers has an empty name or
\* an empty value.
C20_BuilderInvariant ==
    /\ builders[1].statusCode \in 100..599
    /\ builders[1].statusText # ""
    /\ \A n \in DOMAIN builders[1].headers :
           n # "" /\ builders[1].headers[n] # ""

\* setStatusText(text) throws for the empty text and stores any other
SetStatusTextChecked ==
    \A text \in StatusTexts :
        SetStatusText(text) =>
            IF text = ""
            THEN thrown' = "Status text cannot be empty" /\ builders' = builders
            ELSE thrown' = "" /\ builders'[1].statusText = text

\* header(key, value) throws for an empty key or an empty value
HeaderEmptyRejected ==
    \A key \in HeaderKeys, value \in HeaderValues :
        (Header(key, value) /\ (key = "" \/ value = ""))
            => (thrown' = "Header key and value cannot be empty" /\ builders' = builders)

\* C21 as stated: setStatusText throws for the empty text and header for an
\* empty key or an empty value; with non-empty arguments both return and
\* store the value they were given.
C21_NonEmptyIsStored ==
    [][/\ SetStatusTextChecked
       /\ HeaderEmptyRejected
       /\ \A key \in HeaderKeys, value \in HeaderValues :
              (Header(key, value) /\ key # "" /\ value # "")
                  => /\ thrown' = ""
                     /\ LowerName(key) \in DOMAIN builders'[1].headers
                     /\ builders'[1].headers[LowerName(key)] = value]_vars

\* the value without the white space around it
Trimmed(value) == IF value = " " THEN "" ELSE value

\* C21, amended: the same, but with non-empty arguments header returns only
\* for a key that is a valid header name, and what it stores is the value
\* without the white space around it.
C21_ValidNonEmptyIsStored ==
    [][/\ SetStatusTextChecked
       /\ HeaderEmptyRejected
       /\ \A key \in HeaderKeys \ {"X A"}, value \in HeaderValues :
              (Header(key, value) /\ key # "" /\ value # "")
                  => /\ thrown' = ""
                     /\ LowerName(key) \in DOMAIN builders'[1].headers
                     /\ builders'[1].headers[LowerName(key)] = Trimmed(value)]_vars

\* setStatusText('Created') and header('X-A', 'v') have stored their values,
\* and a call with an empty argument has thrown since
C21_Witness ==
    /\ builders[1].statusText = "Created"
    /\ "x-a" \in DOMAIN builders[1].headers
    /\ builders[1].headers["x-a"] = "v"
    /\ thrown = "Header key and value cannot be empty"

\* the step is the call fn(data) and the call has returned a response
Finalized(fn, data) ==
    /\ Finalize(fn, data)
    /\ thrown' = ""
    /\ returned'.fn = fn

\* C22: the response text returns has Content-Type text/plain, the one html
\* returns text/html and the one json returns application/json with the JSON
\* text of the value as the body; each has the builder's status code.
C22_FinalizersStampContentType ==
    [][\A fn \in {"json", "html", "text"} : \A data \in DataOf(fn) :
          Finalized(fn, data) =>
              /\ "content-type" \in DOMAIN returned'.out.headers
              /\ returned'.out.headers["content-type"]
                    = (CASE fn = "json" -> "application/json"
                         [] fn = "html" -> "text/html"
                         [] fn = "text" -> "text/plain")
              /\ returned'.out.status = builders[1].statusCode
              /\ returned'.out.body
                    = (IF fn = "json" THEN "{\"a\":1}" ELSE data)]_vars

\* status(599) and then html('x') gave a response with status 599 and
\* Content-Type text/html
C22_Witness ==
    /\ returned.fn = "html"
    /\ thrown = ""
    /\ returned.out.status = 599
    /\ returned.out.headers["content-type"] = "text/html"

\* the values header() can have stored
StoredByHeader == {Trimmed(value) : value \in HeaderValues \ {""}}

\* C23: the response send returns has a Content-Type only when an earlier
\* header() call put one on the builder (the text/plain default that Response
\* itself gives a string body is the transport's and left aside).
C23_SendSetsNoContentType ==
    [][\A data \in Bodies :
          (/\ Finalized("send", data)
           /\ "content-type" \in DOMAIN returned'.out.headers
           /\ returned'.out.headers["content-type"] # "text/plain;charset=UTF-8")
          => returned'.out.headers["content-type"] \in StoredByHeader]_vars

\* C24: the response a finalizer returns has the builder's status code, the
\* status text set with setStatusText and every header set with header(), the
\* Content-Type that json, html and text stamp apart.
C24_FinalizersPreserveState ==
    [][\A fn \in Finalizers : \A data \in DataOf(fn) :
          Finalized(fn, data) =>
              /\ returned'.out.status = builders[1].statusCode
              /\ builders[1].statusText = "Created"
                    => returned'.out.statusText = "Created"
              /\ \A n \in DOMAIN builders[1].headers :
                     (n # "content-type" \/ fn = "send") =>
                         /\ n \in DOMAIN returned'.out.headers
                         /\ returned'.out.headers[n] = builders[1].headers[n]]_vars

\* the part of C24 about the status code and the headers
C24_CodeAndHeadersPreserved ==
    [][\A fn \in Finalizers : \A data \in DataOf(fn) :
          Finalized(fn, data) =>
              /\ returned'.out.status = builders[1].statusCode
              /\ \A n \in DOMAIN builders[1].headers :
                     (n # "content-type" \/ fn = "send") =>
                         /\ n \in DOMAIN returned'.out.headers
                         /\ returned'.out.headers[n] = builders[1].headers[n]]_vars

\* C25: a call of json, send, html or text leaves the builder's status code,
\* status text and headers as they were.
C25_FinalizersLeaveBuilder ==
    [][\A fn \in Finalizers : \A data \in DataOf(fn) :
          Finalize(fn, data) => builders' = builders]_vars
\* C35: a setter that fails changes nothing: after status with a code out
\* of range, setStatusText with an empty text, or header with an empty key
\* or value has thrown, the builder's status code, status text and headers
\* are what they were before the call.
C35_FailedSetterChangesNothing ==
    [][/\ \A code \in Codes :
             (Status(code) /\ (code < 100 \/ code > 599)) =>
                 thrown' = "Invalid status code" /\ builders'[1] = builders[1]
       /\ SetStatusText("") =>
             thrown' = "Status text cannot be empty" /\ builders'[1] = builders[1]
       /\ \A key \in HeaderKeys, value \in HeaderValues :
             (Header(key, value) /\ (key = "" \/ value = "")) =>
                 /\ thrown' = "Header key and value cannot be empty"
                 /\ builders'[1] = builders[1]]_vars

\* a builder that was set up keeps its state after a status call failed
C35_Witness ==
    /\ thrown = "Invalid status code"
    /\ builders[1].statusCode = 204
    /\ builders[1].statusText = "Created"
    /\ "x-a" \in DOMAIN builders[1].headers

(***************************************************************************)
(* The config store                                                        *)
(***************************************************************************)
KeysOfMap(newConfigs) == {newConfigs[i][1] : i \in 1..Len(newConfigs)}

\* a key written in capital letters only
AllCapitals(key) == \A i \in 1..Len(key) : key[i] \in {"H", "P", "U"}

\* C26: config(map) fails with the invalid-key error whenever the map holds
\* a key that is not upper case, and when every key is upper case it
\* succeeds and the store holds each key of the map with its value.
C26_ConfigChecksKeys ==
    [][(returned'.fn = "config" /\ Config(returned'.arg)) =>
          LET newConfigs == returned'.arg
          IN  IF \E k \in KeysOfMap(newConfigs) : ~AllCapitals(k)
              THEN thrown' = "Config key must be uppercase"
              ELSE /\ thrown' = ""
                   /\ \A i \in 1..Len(newConfigs) :
                         /\ newConfigs[i][1] \in DOMAIN configs'
                         /\ configs'[newConfigs[i][1]] = newConfigs[i][2]]_vars

\* a map of two upper-case keys was stored whole
C26_Witness ==
    /\ returned.fn = "config" /\ thrown = ""
    /\ returned.arg = << << <<"P">>, "a" >>, << <<"U">>, "b" >> >>
    /\ configs = MapSet(MapSet(<<>>, <<"P">>, "a"), <<"U">>, "b")

\* the place of the first key of the map that is not in capitals
Offender(newConfigs) ==
    CHOOSE i \in 1..Len(newConfigs) :
        /\ ~AllCapitals(newConfigs[i][1])
        /\ \A j \in 1..(i - 1) : AllCapitals(newConfigs[j][1])

\* C34: config is not all-or-nothing: when config(map) fails, every key
\* before the offending key is stored with its value, and the offending
\* key and the keys after it are not stored: they are in the store as they
\* were before the call.
C34_ConfigAppliesUpToOffender ==
    [][(returned'.fn = "config" /\ Config(returned'.arg) /\ thrown' # "") =>
          LET newConfigs == returned'.arg
          IN  \A j \in 1..Len(newConfigs) :
                 LET key == newConfigs[j][1]
                 IN  IF j < Offender(newConfigs)
                     THEN key \in DOMAIN configs' /\ configs'[key] = newConfigs[j][2]
                     ELSE /\ key \in DOMAIN configs' <=> key \in DOMAIN configs
                          /\ key \in DOMAIN configs => configs'[key] = configs[key]]_vars

\* the call config({P: b, Pu: a}) failed and P holds b, Pu nothing
C34_Witness ==
    /\ returned.fn = "config" /\ thrown # ""
    /\ returned.arg = << << <<"P">>, "b" >>, << <<"P", "u">>, "a" >> >>
    /\ configs = MapSet(<<>>, <<"P">>, "b")

\* C27 as stated: once a key holds a value, no step changes it.
C27_WriteOncePerKey ==
    [][\A k \in DOMAIN configs : k \in DOMAIN configs' /\ configs'[k] = configs[k]]_vars

\* C27, amended: a key is never removed, and its value changes only in a
\* config call whose map names that key; no other step changes the store.
C27_ChangedOnlyByConfigOfKey ==
    [][\A k \in DOMAIN configs :
          /\ k \in DOMAIN configs'
          /\ configs'[k] # configs[k] =>
                /\ returned'.fn = "config" /\ Config(returned'.arg)
                /\ \E i \in 1..Len(returned'.arg) :
                      returned'.arg[i] = <<k, configs'[k]>>]_vars

\* P kept its value through a later config call that names only U, and
\* through the serving of a request
C27_Witness ==
    /\ returned.fn = "config" /\ returned.arg = << << <<"U">>, "b" >> >>
    /\ thrown = ""
    /\ configs = MapSet(MapSet(<<>>, <<"P">>, "a"), <<"U">>, "b")
    /\ reqs[1].phase = "completed"

(***************************************************************************)
(* The route table                                                         *)
(***************************************************************************)
\* C28: the route table is append-only: a successful registration appends
\* exactly one route at the end, also when an equal route is there already;
\* a failed one leaves the table alone; no step removes, reorders or
\* changes the entries, and only a registration adds one.
C28_RouteTableAppendOnly ==
    [][/\ \A i \in 1..Len(routes) : i <= Len(routes') /\ routes'[i] = routes[i]
       /\ \A pattern \in Patterns :
             AddRoute("GET", pattern, "ok", <<>>) =>
                IF thrown' = ""
                THEN /\ Len(routes') = Len(routes) + 1
                     /\ routes'[Len(routes')].method = "GET"
                     /\ routes'[Len(routes')].path = pattern
                     /\ routes'[Len(routes')].callback = "ok"
                     /\ routes'[Len(routes')].middlewares = <<>>
                ELSE routes' = routes
       /\ routes' # routes =>
             \E pattern \in Patterns : AddRoute("GET", pattern, "ok", <<>>)]_vars

\* the same route registered twice stands twice in the table, and a
\* request has been served since
C28_Witness ==
    /\ Len(routes) = 2
    /\ routes[1] = routes[2]
    /\ reqs[1].phase = "completed"

(***************************************************************************)
(* Errors                                                                  *)
(***************************************************************************)
\* a response without the value of the header by which middleware A marks
\* the request it ran for
Untagged(resp) ==
    [resp EXCEPT !.headers = [n \in DOMAIN resp.headers |->
                                 IF n = "x-req" THEN "" ELSE resp.headers[n]]]

\* two requests of the same method and URL whose handling failed
FailedAlike(r1, r2) ==
    /\ reqs[r1].phase = "failed" /\ reqs[r2].phase = "failed"
    /\ reqs[r1].method = reqs[r2].method
    /\ reqs[r1].url = reqs[r2].url

\* C29: the error caught by fetch is never exposed: two requests that
\* differ only in the error raised get the same response, with status 500
\* and the fixed body 'Internal Server Error'.
C29_ErrorNeverExposed ==
    \A r1, r2 \in ReqIds :
        FailedAlike(r1, r2) =>
            /\ Untagged(reqs[r1].response) = Untagged(reqs[r2].response)
            /\ reqs[r1].response.status = 500
            /\ reqs[r1].response.body = "Internal Server Error"

\* two requests alike failed with different errors
C29_Witness ==
    /\ FailedAlike(1, 2)
    /\ reqs[1].logged = "E1" /\ reqs[2].logged = "E2"
    /\ "x-req" \in DOMAIN reqs[1].response.headers

(***************************************************************************)
(* Relative URLs                                                           *)
(***************************************************************************)
\* C30: the lookup of a URL that starts with "/" matches the string up to
\* the first "?" as the path and takes the query from the rest: it gives
\* the match that the absolute URL of the same path and query gives.
C30_RelativeUrlMatchesAsAbsolute ==
    [][\A url \in RelativeUrls :
          Fetch(1, "GET", url) =>
             /\ reqs'[1].phase # "rejected"
             /\ reqs'[1].route = MatchRoute("GET", UrlOf(url), routes)]_vars

(***************************************************************************)
(* The state shared between requests                                       *)
(***************************************************************************)
\* C31: handling a request never writes to the route table, the global
\* middleware list or the config store: every step of fetch and of the
\* pipeline it runs (the steps that change a request or its builder)
\* leaves the three unchanged.
C31_ServingLeavesSharedState ==
    [][\A r \in ReqIds :
          (reqs'[r] # reqs[r] \/ builders'[r] # builders[r]) =>
              /\ routes' = routes
              /\ globalMiddlewares' = globalMiddlewares
              /\ configs' = configs]_vars

\* a request was handled to its end by an application that holds routes,
\* global middlewares and config values
C31_Witness ==
    /\ reqs[1].phase \in {"completed", "failed"}
    /\ routes # <<>> /\ globalMiddlewares # <<>>
    /\ <<"P">> \in DOMAIN configs

(***************************************************************************)
(* Termination                                                             *)
(***************************************************************************)
Final(q) == q.phase \in {"completed", "failed"}

\* every function of the request's chain returns or throws
Terminating(q) == q.route.handler # "hang"

\* C32: a dispatch moves Pending -> Running -> (Completed | Failed) and
\* never leaves a final state; when every middleware and the handler
\* returns or throws, fetch eventually yields one response: the pipeline's
\* when it completed, a 500 when it failed.
C32_DispatchTerminates ==
    /\ \A r \in ReqIds :
          (reqs[r].phase = "pending" /\ Terminating(reqs[r])) ~> Final(reqs[r])
    /\ [][\A r \in ReqIds :
            /\ Final(reqs[r]) => reqs'[r] = reqs[r]
            /\ reqs[r].phase = "pending" => reqs'[r].phase \in {"pending", "running"}
            /\ reqs[r].phase = "running" => reqs'[r].phase \in {"running", "completed", "failed"}
            /\ (~Final(reqs[r]) /\ reqs'[r].phase = "completed") =>
                  /\ reqs[r].ret.kind = "value"
                  /\ reqs'[r].response = reqs[r].ret.resp
            /\ (~Final(reqs[r]) /\ reqs'[r].phase = "failed") =>
                  /\ reqs[r].ret.kind = "error"
                  /\ reqs'[r].response.status = 500]_vars

\* one request failed and one completed
C32_Witness ==
    /\ reqs[1].phase = "failed" /\ reqs[1].response.status = 500
    /\ reqs[2].phase = "completed"

\* the request's handler was called and never returns
Hung(q) ==
    /\ q.route.handler = "hang"
    /\ \E i \in 1..Len(q.trace) : q.trace[i].ev = "handler"

\* C33: a handler that never returns blocks only its own request: that
\* request never gets a response, and every other request whose own chain
\* terminates still gets its response.
C33_HangBlocksOnlyItsRequest ==
    /\ [](\A r \in ReqIds :
            Hung(reqs[r]) => ~Final(reqs[r]) /\ reqs[r].response = NoResponse)
    /\ \A r \in ReqIds :
          (/\ \E h \in ReqIds \ {r} : Hung(reqs[h])
           /\ reqs[r].phase = "pending" /\ Terminating(reqs[r]))
             ~> (Final(reqs[r]) /\ reqs[r].response # NoResponse)

\* request 1 hangs and request 2 got its response
C33_Witness ==
    /\ Hung(reqs[1]) /\ reqs[1].phase = "running"
    /\ reqs[2].phase = "completed" /\ reqs[2].response.status = 200

(***************************************************************************)
(* The time the chain is assembled                                         *)
(***************************************************************************)
\* C36: the chain is assembled when a request is dispatched, not when the
\* route is registered: use adds its middleware to the global list whatever
\* routes are registered already, and fetch builds the chain from the
\* global list as it is at the dispatch, followed by the matched route's
\* own middleware.
C36_ChainAssembledAtDispatch ==
    [][/\ \A m \in Middlewares :
             Use(m) => /\ globalMiddlewares' = Append(globalMiddlewares, m)
                       /\ routes' = routes
       /\ (Looked(1) /\ reqs'[1].route.found) =>
             reqs'[1].chain =
                globalMiddlewares \o routes[reqs'[1].route.idx].middlewares]_vars

\* the application whose routes were registered with the global list
\* <<A>> got B by a later use, and B wrapped the handler of GET /h/:i
C36_Witness ==
    /\ globalMiddlewares = <<"A", "B">>
    /\ reqs[1].phase = "completed"
    /\ reqs[1].chain = <<"A", "B">>
    /\ "x-b" \in DOMAIN reqs[1].response.headers
    /\ \E i, j, k \in 1..Len(reqs[1].trace) :
          /\ i < j /\ j < k
          /\ reqs[1].trace[i].ev = "before" /\ reqs[1].trace[i].mw = "B"
          /\ reqs[1].trace[j].ev = "handler"
          /\ reqs[1].trace[k].ev = "after" /\ reqs[1].trace[k].mw = "B"

(***************************************************************************)
(* Calling next() more than once                                           *)
(***************************************************************************)
\* how often the place idx of the chain (the handler: the place after the
\* last middleware) was started
Starts(q, idx) ==
    Cardinality({i \in 1..Len(q.trace) :
                    q.trace[i].idx = idx /\ q.trace[i].ev \in {"before", "handler"}})

\* the places of the chain whose middleware calls next() twice
TwicePlaces(q) == {p \in 1..Len(q.chain) : q.chain[p] = "W"}

\* C37: the dispatcher keeps no record of the places that have run: every
\* call of next() starts the next place anew.  The handler runs at most
\* once when no middleware calls next() twice, and when a middleware calls
\* next() twice the places after it and the handler run twice.
C37_NextStartsAnew ==
    \A r \in ReqIds :
        LET q == reqs[r]
        IN  /\ TwicePlaces(q) = {} => Starts(q, Len(q.chain) + 1) <= 1
            /\ (q.phase = "completed" /\ TwicePlaces(q) # {}) =>
                  \A idx \in 1..(Len(q.chain) + 1) :
                      Starts(q, idx) =
                         IF \E p \in TwicePlaces(q) : p < idx THEN 2 ELSE 1

\* a request went through W, A and the handler, and the handler ran twice
C37_Witness ==
    /\ reqs[1].phase = "completed"
    /\ reqs[1].chain = <<"W", "A">>
    /\ Starts(reqs[1], 2) = 2
    /\ Starts(reqs[1], 3) = 2

====
